---- MODULE Spec2Model ----
(***************************************************************************)
(* Decision engine of the workflow client: the workflow context and event  *)
(* handler (client/flow/event_handlers.go) and the workflow definition     *)
(* adapter (contextImpl / workflowDefinition) that hosts user workflow     *)
(* code on the coroutine dispatcher.                                       *)
(*                                                                         *)
(* Strings that the code formats or compares (activity ids) are sequences  *)
(* of one-character strings; opaque payloads are plain strings.            *)
(* Record constructors list their fields in the order TLC normalizes them  *)
(* to (the order in which the field names first occur in the module), so   *)
(* that values shared between TLC workers are never reordered in place.    *)
(***************************************************************************)
EXTENDS Integers, Sequences, FiniteSets, TLC

\* ------------------------------------------------------------------ bounds
\* number of history events fed to one event handler
MaxEvents == 5
\* number of GenerateActivityID calls in the id-generation specification
MaxGenCalls == 120
\* number of workers built in the worker-construction specification
MaxWorkers == 2

\* ------------------------------------------------------------- nil values
\* nil []byte
NilBytes == "<nil>"
\* nil Error interface value; every Error has the same shape
NilError == [kind |-> "nil", reason |-> "", details |-> "", timeoutType |-> ""]
\* nil *string (ExecuteActivityParameters.ActivityID not supplied)
NilID == <<>>
\* nil *workflowResult (empty result slot)
NilResult == [set |-> FALSE, workflowResult |-> NilBytes, error |-> NilError]
\* nil PanicError
NilPanic == [set |-> FALSE, msg |-> "", stack |-> ""]

\* NewError(reason, details)
NewError(reason, details) ==
    [kind |-> "errorImpl", reason |-> reason, details |-> details, timeoutType |-> ""]

\* &ActivityTaskFailedError{reason, details}
ActivityTaskFailedError(reason, details) ==
    [kind |-> "ActivityTaskFailedError", reason |-> reason, details |-> details,
     timeoutType |-> ""]

\* &ActivityTaskTimeoutError{TimeoutType}
ActivityTaskTimeoutError(timeoutType) ==
    [kind |-> "ActivityTaskTimeoutError", reason |-> "", details |-> "",
     timeoutType |-> timeoutType]

\* ------------------------------------------------- fmt.Sprintf("%d", int32)
Digits == <<"0", "1", "2", "3", "4", "5", "6", "7", "8", "9">>

RECURSIVE FormatNat(_)
FormatNat(n) ==
    IF n < 10 THEN <<Digits[n + 1]>>
    ELSE FormatNat(n \div 10) \o <<Digits[(n % 10) + 1]>>

\* decimal form of a signed integer
SprintfD(n) == IF n < 0 THEN <<"-">> \o FormatNat(0 - n) ELSE FormatNat(n)

\* counterID++ on an int32: wraps from the largest value to the smallest
MaxInt32 == 2147483647
Inc32(n) == IF n = MaxInt32 THEN (0 - MaxInt32) - 1 ELSE n + 1

\* ------------------------------------------------------ user workflow code
\* A coroutine body is a sequence of operations on the Context:
\*   act    synchronous ExecuteActivity (id = NilID: auto-generated id)
\*   go     Context.Go(body)
\*   read   tmp := shared            write   shared := tmp + 1
\*   send   Send on the user channel recv    Recv from the user channel
\*   panic  panic(arg)
\*   ret    return from Workflow.Execute (root only): arg = "last" returns the
\*          outcome of the last activity, "error" a user error, else (arg, nil)
Op(op, id, arg, body) == [op |-> op, id |-> id, arg |-> arg, body |-> body]
Act(id, type) == Op("act", id, type, <<>>)
Go(body) == Op("go", NilID, "", body)
Read == Op("read", NilID, "", <<>>)
Write == Op("write", NilID, "", <<>>)
Send == Op("send", NilID, "", <<>>)
Recv == Op("recv", NilID, "", <<>>)
Panic(msg) == Op("panic", NilID, msg, <<>>)
Ret(arg) == Op("ret", NilID, arg, <<>>)

\* capacity of the user channel the workflows below create
UserChanCap == 1

WorkflowCode(name) ==
    CASE name = "single" -> <<Act(NilID, "Foo"), Ret("last")>>
      [] name = "sequential" -> <<Act(NilID, "Foo"), Act(NilID, "Bar"), Ret("last")>>
      [] name = "parallel" ->
            <<Go(<<Act(NilID, "A"), Read, Write, Send>>),
              Go(<<Act(NilID, "B"), Read, Write, Send>>),
              Recv, Recv, Ret("ab")>>
      [] name = "fuzz" ->
            <<Go(<<Read, Write>>), Go(<<Read, Write>>), Go(<<Read, Write>>),
              Read, Write, Ret("k")>>
      [] name = "panic" -> <<Panic("nope")>>
      [] name = "unawaited" ->
            <<Go(<<Act(NilID, "A"), Act(NilID, "B")>>), Ret("r")>>
      [] name = "childPanic" -> <<Go(<<Panic("child")>>), Ret("r")>>
      [] name = "latePanic" ->
            <<Go(<<Act(NilID, "A"), Panic("late")>>), Act(NilID, "B"), Ret("last")>>
      [] name = "userIds" ->
            <<Go(<<Act(<<"x">>, "A"), Send>>), Act(<<"0">>, "B"), Act(NilID, "C"),
              Recv, Ret("last")>>
      [] name = "error" -> <<Ret("error")>>

WorkflowNames ==
    {"single", "sequential", "parallel", "fuzz", "panic", "unawaited",
     "childPanic", "latePanic", "userIds", "error"}

\* workflow types for which the WorkflowDefinitionFactory returns an Error
FactoryErrorTypes == {"unregistered"}

WorkflowTypes == WorkflowNames \cup FactoryErrorTypes


\* --------------------------------------------------------------- the state
VARIABLES
    workflowType,                 \* workflowInfo.workflowType of the execution
    scheduledActivites,           \* activity id -> callback (index of the call that made it)
    scheduledEventIDToActivityID, \* scheduled event id -> activity id
    counterID,                    \* int32 source of auto-generated activity ids
    executeDecisions,             \* decisions pending since the last swap
    completions,                  \* the calls received by completeHandler, in order
    workflowDefinition,           \* FALSE until the factory has produced the definition
    coroutines,                   \* the dispatcher's coroutines, root first
    closed,                       \* dispatcher.Close() was called
    result,                       \* the result slot shared by the coroutines
    calls,                        \* one entry per synchronous ExecuteActivity call
    userChan,                     \* buffer of the user channel
    shared,                       \* counter shared by the user coroutines
    crashed,                      \* a Go panic escaped ProcessEvent
    nEvents,                      \* number of events fed so far
    last,                         \* the last ProcessEvent call: event, outcome, effects
    fedScheduled,                 \* event id -> activity id of the ActivityTaskScheduled events fed
    genIds,                       \* every id GenerateActivityID has returned, in order
    workers                       \* the workflow and activity workers built so far

vars ==
    <<workflowType, scheduledActivites, scheduledEventIDToActivityID, counterID,
      executeDecisions, completions, workflowDefinition, coroutines, closed,
      result, calls, userChan, shared, crashed, nEvents, last, fedScheduled, genIds,
      workers>>

\* the state as one record, with the per-call scratch fields the operators use:
\*   ret      value returned by the operator that ran last
\*   panicErr what the last ExecuteUntilAllBlocked returned
\*   made / invoked / returns / pumps / advanced: effects of the running call
\*   pumping  an ExecuteUntilAllBlocked of the dispatcher is in progress
State ==
    [workflowType |-> workflowType,
     scheduledActivites |-> scheduledActivites,
     scheduledEventIDToActivityID |-> scheduledEventIDToActivityID,
     counterID |-> counterID,
     executeDecisions |-> executeDecisions,
     completions |-> completions,
     workflowDefinition |-> workflowDefinition,
     coroutines |-> coroutines,
     closed |-> closed,
     result |-> result,
     calls |-> calls,
     userChan |-> userChan,
     shared |-> shared,
     crashed |-> crashed,
     genIds |-> genIds,
     ret |-> <<>>,
     panicErr |-> NilPanic,
     made |-> <<>>,
     invoked |-> <<>>,
     returns |-> <<>>,
     pumps |-> <<>>,
     advanced |-> {},
     pumping |-> FALSE]

\* ------------------------------------------------------- workflowContext
\* wc.Complete: forwards to the completion handler
Complete(s, res, err) ==
    [s EXCEPT !.completions = Append(@, [result |-> res, err |-> err])]

\* variant: the counter is incremented before it is read
GenerateActivityID_preIncrement(s) ==
    [s EXCEPT !.counterID = Inc32(@),
              !.ret = SprintfD(Inc32(s.counterID)),
              !.genIds = Append(@, SprintfD(Inc32(s.counterID)))]

\* wc.GenerateActivityID: returns the decimal form of the counter, then increments
GenerateActivityID(s) ==
    [s EXCEPT !.counterID = Inc32(@),
              !.ret = SprintfD(s.counterID),
              !.genIds = Append(@, SprintfD(s.counterID))]

\* variant: the old batch is returned but left in place
SwapExecuteDecisions_keep(s, decisions) ==
    [s EXCEPT !.ret = s.executeDecisions]

\* wc.SwapExecuteDecisions(decisions): returns the old batch in ret
SwapExecuteDecisions(s, decisions) ==
    [s EXCEPT !.executeDecisions = decisions, !.ret = s.executeDecisions]

\* wc.CreateNewDecision(decisionType)
CreateNewDecision(decisionType) ==
    [decisionType |-> decisionType, activityId |-> <<>>, activityType |-> ""]

\* map[k] = v
MapPut(f, k, v) == [x \in (DOMAIN f) \cup {k} |-> IF x = k THEN v ELSE f[x]]

\* variant: the new decision replaces the decisions that were pending
scheduleActivityTask_dropPending(s, activityType, callback) ==
    LET decision == [CreateNewDecision("ScheduleActivityTask") EXCEPT
                        !.activityId = s.ret, !.activityType = activityType]
    IN [s EXCEPT !.executeDecisions = <<decision>>,
                 !.scheduledActivites = MapPut(@, s.ret, callback),
                 !.made = Append(@, decision)]

\* variant: the new decision is put in front of the pending ones
scheduleActivityTask_prepend(s, activityType, callback) ==
    LET decision == [CreateNewDecision("ScheduleActivityTask") EXCEPT
                        !.activityId = s.ret, !.activityType = activityType]
    IN [s EXCEPT !.executeDecisions = <<decision>> \o @,
                 !.scheduledActivites = MapPut(@, s.ret, callback),
                 !.made = Append(@, decision)]

\* wc.ExecuteActivity from the decision on, the activity id being in s.ret:
\* appends the ScheduleActivityTask decision and registers the callback
scheduleActivityTask(s, activityType, callback) ==
    LET decision == [CreateNewDecision("ScheduleActivityTask") EXCEPT
                        !.activityId = s.ret, !.activityType = activityType]
    IN [s EXCEPT !.executeDecisions = Append(@, decision),
                 !.scheduledActivites = MapPut(@, s.ret, callback),
                 !.made = Append(@, decision)]

\* variant: the counter is advanced by every call, also when the request
\* supplies its own activity id
ExecuteActivity_alwaysGenerate(s, activityID, activityType, callback) ==
    LET generated(s1) == IF activityID = NilID THEN s1
                         ELSE [s1 EXCEPT !.ret = activityID]
    IN scheduleActivityTask(generated(GenerateActivityID(s)), activityType, callback)

\* wc.ExecuteActivity(parameters, callback)
ExecuteActivity(s, activityID, activityType, callback) ==
    scheduleActivityTask(IF activityID = NilID THEN GenerateActivityID(s)
                         ELSE [s EXCEPT !.ret = activityID],
                         activityType, callback)


\* ------------------------------------------------ coroutine runtime
\* (common/coroutine: Dispatcher, Channel)
NewCoroutineRecord(body) ==
    [res |-> NilBytes, err |-> NilError, prog |-> body, call |-> 0, tmp |-> 0,
     panicked |-> FALSE]

\* coroutine.NewCoroutine(ctx, body): registered with the dispatcher, runs only
\* when the dispatcher is pumped
NewCoroutine(s, body) ==
    [s EXCEPT !.coroutines = Append(@, NewCoroutineRecord(body))]

\* coroutine.NewNamedBufferedChannel(ctx, name, 1) of one synchronous
\* ExecuteActivity call, with the call's named results (result, err);
\* delivered counts the invocations of the call's callback, requestID is
\* parameters.ActivityID
NewCall(activityID) ==
    [result |-> NilBytes, err |-> NilError, aid |-> <<>>, buf |-> <<>>,
     delivered |-> 0, requestID |-> activityID]

\* synthetic stack trace of a panic in coroutine i
StackTraces == <<"stack#1", "stack#2", "stack#3", "stack#4", "stack#5", "stack#6">>

\* the next operation of coroutine i can complete (the coroutine is runnable)
Runnable(s, i) ==
    LET c == s.coroutines[i] IN
    /\ c.prog # <<>>
    /\ CASE Head(c.prog).op = "await" -> s.calls[c.call].buf # <<>>
         [] Head(c.prog).op = "recv" -> s.userChan # <<>>
         [] Head(c.prog).op = "send" -> Len(s.userChan) < UserChanCap
         [] OTHER -> TRUE

\* Channel.SendAsync(v) on the channel of call k: ret tells whether it was accepted
SendAsync(s, k) ==
    IF Len(s.calls[k].buf) < 1
    THEN [s EXCEPT !.calls[k].buf = Append(@, TRUE), !.ret = TRUE]
    ELSE [s EXCEPT !.ret = FALSE]

\* Dispatcher.Close()
Close(s) == [s EXCEPT !.closed = TRUE]

\* ------------------------------------------------------------ contextImpl
\* variant: the call returns without receiving from the result channel
awaitCall_noRecv(s, i, k) ==
    [s EXCEPT !.calls[k].aid = s.ret,
              !.coroutines[i].call = k,
              !.coroutines[i].prog = Tail(@)]

\* contextImpl.ExecuteActivity after wc.ExecuteActivity returned: coroutine i
\* is left at the Recv on the channel of call k
awaitCall(s, i, k) ==
    [s EXCEPT !.calls[k].aid = s.ret,
              !.coroutines[i].call = k,
              !.coroutines[i].prog = <<Op("await", NilID, "", <<>>)>> \o Tail(@)]

\* contextImpl.ExecuteActivity, first statements: the result channel and the
\* named results of the call coroutine i is making
newResultChannel(s, i) ==
    [s EXCEPT !.calls = Append(@, NewCall(Head(s.coroutines[i].prog).id))]

\* variant: wc.ExecuteActivity invokes the callback at once, from inside the
\* coroutine step that made the call
RECURSIVE ActivityCallback(_, _, _, _)
ExecuteActivityCall_inlineCallback(s, i) ==
    ActivityCallback(awaitCall(ExecuteActivity(newResultChannel(s, i),
                                               Head(s.coroutines[i].prog).id,
                                               Head(s.coroutines[i].prog).arg,
                                               Len(s.calls) + 1),
                               i, Len(s.calls) + 1),
                     Len(s.calls) + 1, NilBytes, NilError)

\* contextImpl.ExecuteActivity up to its blocking Recv: creates the result
\* channel and registers the callback with the workflow context
ExecuteActivityCall(s, i) ==
    awaitCall(ExecuteActivity(newResultChannel(s, i),
                              Head(s.coroutines[i].prog).id,
                              Head(s.coroutines[i].prog).arg,
                              Len(s.calls) + 1),
              i, Len(s.calls) + 1)

\* contextImpl.ExecuteActivity from its Recv on: returns the captured pair
ExecuteActivityReturn(s, i) ==
    LET k == s.coroutines[i].call IN
    [s EXCEPT !.calls[k].buf = Tail(@),
              !.coroutines[i].res = s.calls[k].result,
              !.coroutines[i].err = s.calls[k].err,
              !.coroutines[i].prog = Tail(@),
              !.returns = Append(@, [coroutine |-> i, call |-> k, aid |-> s.calls[k].aid,
                                     result |-> s.calls[k].result,
                                     err |-> s.calls[k].err])]

\* contextImpl.Go(f)
ContextGo(s, i) ==
    NewCoroutine([s EXCEPT !.coroutines[i].prog = Tail(@)],
                 Head(s.coroutines[i].prog).body)

\* the root coroutine of workflowDefinition.Execute returns from
\* Workflow.Execute and writes the result slot
RootReturn(s, i) ==
    LET c == s.coroutines[i]
        arg == Head(c.prog).arg
        r == CASE arg = "last" -> [set |-> TRUE, workflowResult |-> c.res, error |-> c.err]
               [] arg = "error" ->
                    [set |-> TRUE, workflowResult |-> NilBytes,
                     error |-> NewError("failed", "why")]
               [] OTHER -> [set |-> TRUE, workflowResult |-> arg, error |-> NilError]
    IN [s EXCEPT !.result = r, !.coroutines[i].prog = <<>>]

\* one operation of coroutine i
Step(s, i) ==
    LET c == s.coroutines[i]
        op == Head(c.prog)
        s0 == [s EXCEPT !.advanced = @ \cup {i}]
    IN CASE op.op = "act" -> ExecuteActivityCall(s0, i)
         [] op.op = "await" -> ExecuteActivityReturn(s0, i)
         [] op.op = "go" -> ContextGo(s0, i)
         [] op.op = "read" ->
                [s0 EXCEPT !.coroutines[i].tmp = s.shared, !.coroutines[i].prog = Tail(@)]
         [] op.op = "write" ->
                [s0 EXCEPT !.shared = c.tmp + 1, !.coroutines[i].prog = Tail(@)]
         [] op.op = "send" ->
                [s0 EXCEPT !.userChan = Append(@, i), !.coroutines[i].prog = Tail(@)]
         [] op.op = "recv" ->
                [s0 EXCEPT !.userChan = Tail(@), !.coroutines[i].prog = Tail(@)]
         [] op.op = "panic" ->
                [s0 EXCEPT !.coroutines[i].prog = <<>>,
                           !.coroutines[i].panicked = TRUE,
                           !.panicErr = [set |-> TRUE, msg |-> op.arg,
                                         stack |-> StackTraces[i]]]
         [] op.op = "ret" -> RootReturn(s0, i)

\* variant: control passes to the next coroutine after every operation
RECURSIVE RunCoroutine_yieldEachStep(_, _)
RunCoroutine_yieldEachStep(s, i) ==
    IF s.panicErr.set \/ ~Runnable(s, i) THEN s
    ELSE Step(s, i)

\* coroutine i is advanced until it finishes, suspends or panics
RECURSIVE RunCoroutine(_, _)
RunCoroutine(s, i) ==
    IF s.panicErr.set \/ ~Runnable(s, i) THEN s
    ELSE RunCoroutine(Step(s, i), i)

\* one pass over the coroutines in creation order, from coroutine i on
RECURSIVE RunPass(_, _)
RunPass(s, i) ==
    IF s.panicErr.set \/ i > Len(s.coroutines) THEN s
    ELSE RunPass(RunCoroutine(s, i), i + 1)

\* variant: the pump makes one pass over the coroutines
RunToFixedPoint_singlePass(s) ==
    IF s.panicErr.set \/ ~(\E i \in 1..Len(s.coroutines) : Runnable(s, i)) THEN s
    ELSE RunPass(s, 1)

\* passes are repeated until no coroutine is runnable or one panicked
RECURSIVE RunToFixedPoint(_)
RunToFixedPoint(s) ==
    IF s.panicErr.set \/ ~(\E i \in 1..Len(s.coroutines) : Runnable(s, i)) THEN s
    ELSE RunToFixedPoint(RunPass(s, 1))

\* variant: a closed dispatcher is pumped like an open one
ExecuteUntilAllBlocked_ignoreClosed(s) ==
    LET returned(s1) == [s1 EXCEPT !.pumping = s.pumping]
    IN returned(RunToFixedPoint([s EXCEPT !.panicErr = NilPanic, !.pumping = TRUE]))

\* Dispatcher.ExecuteUntilAllBlocked(): the panic it returns is left in panicErr;
\* a pump of a closed dispatcher is a no-op
ExecuteUntilAllBlocked(s) ==
    LET returned(s1) == [s1 EXCEPT !.pumping = s.pumping]
    IN IF s.closed THEN [s EXCEPT !.panicErr = NilPanic]
       ELSE returned(RunToFixedPoint([s EXCEPT !.panicErr = NilPanic,
                                               !.pumping = TRUE]))

\* the entry a call of executeDispatcher leaves in pumps: s before the call,
\* s1 after the pump, s2 at the return; leftRunnable holds the coroutines that
\* could still be advanced when the pump returned, nested tells whether the
\* call was made while a pump was in progress
PumpRecord(s, s1, s2) ==
    [panicErr |-> s1.panicErr, wasClosed |-> s.closed, slot |-> s1.result,
     at |-> Len(s.completions),
     completeCalls |-> Len(s2.completions) - Len(s.completions),
     leftRunnable |-> {i \in 1..Len(s1.coroutines) : Runnable(s1, i)},
     closedAfter |-> s2.closed,
     nested |-> s.pumping]

\* contextImpl.executeDispatcher, panic branch
reportPanic(s) ==
    Close(Complete(s, NilBytes, NewError(s.panicErr.msg, s.panicErr.stack)))

\* variant: the result slot is reported whether or not the root has written it
reportResult_unconditional(s) ==
    Close(Complete(s, s.result.workflowResult, s.result.error))

\* contextImpl.executeDispatcher, result branch
reportResult(s) ==
    IF ~s.result.set THEN s
    ELSE Close(Complete(s, s.result.workflowResult, s.result.error))

\* variant: the panic branch does not return and goes on to report the result slot
executeDispatcher_fallThrough(s) ==
    LET report(s1) == IF s1.panicErr.set THEN reportResult(reportPanic(s1))
                      ELSE reportResult(s1)
        record(s1, s2) == [s2 EXCEPT !.pumps = Append(@, PumpRecord(s, s1, s2))]
        pumped(s1) == record(s1, report(s1))
    IN pumped(ExecuteUntilAllBlocked(s))

\* contextImpl.executeDispatcher
executeDispatcher(s) ==
    LET report(s1) == IF s1.panicErr.set THEN reportPanic(s1)
                      ELSE reportResult(s1)
        record(s1, s2) == [s2 EXCEPT !.pumps = Append(@, PumpRecord(s, s1, s2))]
        pumped(s1) == record(s1, report(s1))
    IN pumped(ExecuteUntilAllBlocked(s))

\* the callback's assignments to the named results of call k
captureOutcome(s, k, r, e) ==
    [s EXCEPT !.calls[k].result = r,
              !.calls[k].err = IF e.kind # NilError.kind THEN e ELSE @,
              !.calls[k].delivered = @ + 1,
              !.invoked = Append(@, k)]

\* if !ok { panic("unexpected") }
unexpected(s) == [s EXCEPT !.crashed = "unexpected"]

\* variant: the callback does not re-drive the dispatcher
ActivityCallback_noPump(s, k, r, e) ==
    LET sent(s2) == IF ~s2.ret THEN unexpected(s2) ELSE s2
    IN sent(SendAsync(captureOutcome(s, k, r, e), k))

\* variant: the callback does not capture the error
ActivityCallback_dropError(s, k, r, e) ==
    LET sent(s2) == IF ~s2.ret THEN unexpected(s2) ELSE executeDispatcher(s2)
    IN sent(SendAsync(captureOutcome(s, k, r, NilError), k))

\* the callback contextImpl.ExecuteActivity registers for call k
ActivityCallback(s, k, r, e) ==
    LET sent(s2) == IF ~s2.ret THEN unexpected(s2) ELSE executeDispatcher(s2)
    IN sent(SendAsync(captureOutcome(s, k, r, e), k))

\* workflowDefinition.Execute(wc, input)
DefinitionExecute(s) ==
    executeDispatcher(
        [s EXCEPT !.result = NilResult,
                  !.coroutines = <<NewCoroutineRecord(WorkflowCode(s.workflowType))>>,
                  !.closed = FALSE])


\* ------------------------------------------------------- history events
NoOpEventTypes ==
    {"WorkflowExecutionCompleted", "WorkflowExecutionFailed",
     "WorkflowExecutionTimedOut", "DecisionTaskScheduled", "DecisionTaskStarted",
     "DecisionTaskTimedOut", "DecisionTaskCompleted", "ActivityTaskStarted",
     "TimerStarted", "TimerFired"}

TerminalEventTypes ==
    {"ActivityTaskCompleted", "ActivityTaskFailed", "ActivityTaskTimedOut"}

\* event types ProcessEvent has no case for
UnknownEventTypes == {"MarkerRecorded"}

Event(type, eventId, activityId, scheduledEventId, res, reason, details, timeoutType) ==
    [reason |-> reason, details |-> details, timeoutType |-> timeoutType,
     result |-> res, activityId |-> activityId, eventId |-> eventId,
     scheduledEventId |-> scheduledEventId, eventType |-> type]

\* a nil *HistoryEvent
NilEvent == Event("<nil>", 0, <<>>, 0, NilBytes, "", "", "")

\* the values the fed events draw their attributes from
\* the event ids of the ActivityTaskScheduled events of a history
EventIds == {5, 6}
ActivityIds == {<<"0">>, <<"1">>, <<"x">>}
Results == {"a", "b"}
Reasons == {"boom"}
Details == {"d"}
TimeoutTypes == {"ScheduleToClose", "StartToClose"}

\* ------------------------------------------- workflowExecutionEventHandler
\* the return values of ProcessEvent: a nil batch is told apart from an empty one
Return(s, decisions, err) ==
    [s EXCEPT !.ret = [nil |-> FALSE, decisions |-> decisions, err |-> err]]

ReturnNil(s, err) ==
    [s EXCEPT !.ret = [nil |-> TRUE, decisions |-> <<>>, err |-> err]]

\* return weh.SwapExecuteDecisions([]*m.Decision{}), nil
ReturnSwapped(s) ==
    LET returned(s1) == Return(s1, s1.ret, "")
    IN returned(SwapExecuteDecisions(s, <<>>))

\* the error weh.workflowDefinitionFactory(workflowType) returns ("" for nil)
workflowDefinitionFactory(type) ==
    IF type \in FactoryErrorTypes THEN "factory error" ELSE ""

\* variant: the factory's error is swallowed and the drained batch returned
handleWorkflowExecutionStarted_swallowFactoryError(s) ==
    IF workflowDefinitionFactory(s.workflowType) # ""
    THEN ReturnSwapped(s)
    ELSE ReturnSwapped(DefinitionExecute([s EXCEPT !.workflowDefinition = TRUE]))

\* handleWorkflowExecutionStarted
handleWorkflowExecutionStarted(s) ==
    IF workflowDefinitionFactory(s.workflowType) # ""
    THEN ReturnNil(s, workflowDefinitionFactory(s.workflowType))
    ELSE ReturnSwapped(DefinitionExecute([s EXCEPT !.workflowDefinition = TRUE]))

\* variant: a terminal event whose activity id has no registered callback is
\* skipped silently, with the drained batch and no error
handleTerminal_skipUnregistered(s, scheduledEventId, r, e) ==
    IF scheduledEventId \notin DOMAIN s.scheduledEventIDToActivityID
    THEN ReturnNil(s, "unable to find activity ID for the event")
    ELSE LET activityID == s.scheduledEventIDToActivityID[scheduledEventId] IN
         IF activityID \notin DOMAIN s.scheduledActivites
         THEN ReturnSwapped(s)
         ELSE LET handler == s.scheduledActivites[activityID]
                  drained(s1) == IF s1.crashed # "" THEN s1 ELSE ReturnSwapped(s1)
              IN drained(IF handler # 0 THEN ActivityCallback(s, handler, r, e) ELSE s)

\* variant: a terminal event without a recorded scheduled event is skipped
\* silently, with the drained batch and no error
handleTerminal_skipUnknown(s, scheduledEventId, r, e) ==
    IF scheduledEventId \notin DOMAIN s.scheduledEventIDToActivityID
    THEN ReturnSwapped(s)
    ELSE LET activityID == s.scheduledEventIDToActivityID[scheduledEventId] IN
         IF activityID \notin DOMAIN s.scheduledActivites
         THEN ReturnNil(s, "unable to find callback handler for the event")
         ELSE LET handler == s.scheduledActivites[activityID]
                  drained(s1) == IF s1.crashed # "" THEN s1 ELSE ReturnSwapped(s1)
              IN drained(IF handler # 0 THEN ActivityCallback(s, handler, r, e) ELSE s)

\* the part the three terminal-activity handlers share: resolve
\* scheduledEventId -> activityId -> handler, invoke it with (r, e), drain
handleTerminal(s, scheduledEventId, r, e) ==
    IF scheduledEventId \notin DOMAIN s.scheduledEventIDToActivityID
    THEN ReturnNil(s, "unable to find activity ID for the event")
    ELSE LET activityID == s.scheduledEventIDToActivityID[scheduledEventId] IN
         IF activityID \notin DOMAIN s.scheduledActivites
         THEN ReturnNil(s, "unable to find callback handler for the event")
         ELSE LET handler == s.scheduledActivites[activityID]
                  drained(s1) == IF s1.crashed # "" THEN s1 ELSE ReturnSwapped(s1)
              IN drained(IF handler # 0 THEN ActivityCallback(s, handler, r, e) ELSE s)

\* handleActivityTaskCompleted
handleActivityTaskCompleted(s, event) ==
    handleTerminal(s, event.scheduledEventId, event.result, NilError)

\* handleActivityTaskFailed
handleActivityTaskFailed(s, event) ==
    handleTerminal(s, event.scheduledEventId, NilBytes,
                   ActivityTaskFailedError(event.reason, event.details))

\* handleActivityTaskTimedOut
handleActivityTaskTimedOut(s, event) ==
    handleTerminal(s, event.scheduledEventId, NilBytes,
                   ActivityTaskTimeoutError(event.timeoutType))

\* variant: the new entry replaces the map
recordActivityTaskScheduled_reset(s, event) ==
    [s EXCEPT !.scheduledEventIDToActivityID =
                 [x \in {event.eventId} |-> event.activityId]]

\* variant: the entry is keyed by the (unset) scheduled event id of the attributes
recordActivityTaskScheduled_wrongKey(s, event) ==
    [s EXCEPT !.scheduledEventIDToActivityID =
                 MapPut(@, event.scheduledEventId, event.activityId)]

\* ProcessEvent, case ActivityTaskScheduled: records event id -> activity id
recordActivityTaskScheduled(s, event) ==
    [s EXCEPT !.scheduledEventIDToActivityID =
                 MapPut(@, event.eventId, event.activityId)]

\* variant: the events without an effect return the drained batch
switchEventType_drainOnNoOp(s, event) ==
    CASE event.eventType = "WorkflowExecutionStarted" ->
            handleWorkflowExecutionStarted(s)
      [] event.eventType \in NoOpEventTypes -> ReturnSwapped(s)
      [] event.eventType = "ActivityTaskScheduled" ->
            ReturnNil(recordActivityTaskScheduled(s, event), "")
      [] event.eventType = "ActivityTaskCompleted" ->
            handleActivityTaskCompleted(s, event)
      [] event.eventType = "ActivityTaskFailed" ->
            handleActivityTaskFailed(s, event)
      [] event.eventType = "ActivityTaskTimedOut" ->
            handleActivityTaskTimedOut(s, event)
      [] OTHER -> ReturnNil(s, "missing event handler for event type")

\* variant: an event type without a case is skipped without an error
switchEventType_ignoreUnknown(s, event) ==
    CASE event.eventType = "WorkflowExecutionStarted" ->
            handleWorkflowExecutionStarted(s)
      [] event.eventType \in NoOpEventTypes -> ReturnNil(s, "")
      [] event.eventType = "ActivityTaskScheduled" ->
            ReturnNil(recordActivityTaskScheduled(s, event), "")
      [] event.eventType = "ActivityTaskCompleted" ->
            handleActivityTaskCompleted(s, event)
      [] event.eventType = "ActivityTaskFailed" ->
            handleActivityTaskFailed(s, event)
      [] event.eventType = "ActivityTaskTimedOut" ->
            handleActivityTaskTimedOut(s, event)
      [] OTHER -> ReturnNil(s, "")

\* ProcessEvent: switch event.GetEventType()
switchEventType(s, event) ==
    CASE event.eventType = "WorkflowExecutionStarted" ->
            handleWorkflowExecutionStarted(s)
      [] event.eventType \in NoOpEventTypes -> ReturnNil(s, "")
      [] event.eventType = "ActivityTaskScheduled" ->
            ReturnNil(recordActivityTaskScheduled(s, event), "")
      [] event.eventType = "ActivityTaskCompleted" ->
            handleActivityTaskCompleted(s, event)
      [] event.eventType = "ActivityTaskFailed" ->
            handleActivityTaskFailed(s, event)
      [] event.eventType = "ActivityTaskTimedOut" ->
            handleActivityTaskTimedOut(s, event)
      [] OTHER -> ReturnNil(s, "missing event handler for event type")

\* variant: a nil event is skipped without an error
ProcessEvent_nilAccepted(s, event) ==
    IF event.eventType = NilEvent.eventType THEN ReturnNil(s, "")
    ELSE switchEventType(s, event)

\* ProcessEvent(event)
ProcessEvent(s, event) ==
    IF event.eventType = NilEvent.eventType THEN ReturnNil(s, "nil event provided")
    ELSE switchEventType(s, event)

\* ------------------------------------------------------------- behaviours
NoCall ==
    [made |-> <<>>, invoked |-> <<>>, returns |-> <<>>, pumps |-> <<>>,
     advanced |-> {}, err |-> "", decisions |-> <<>>, nil |-> TRUE,
     event |-> NilEvent, fed |-> FALSE, closedAtCall |-> FALSE]

\* newWorkflowExecutionEventHandler: empty maps, no decisions, counter 0, no definition
Init ==
    /\ workflowType \in WorkflowTypes
    /\ scheduledActivites = <<>>
    /\ scheduledEventIDToActivityID = <<>>
    /\ counterID = 0
    /\ executeDecisions = <<>>
    /\ completions = <<>>
    /\ workflowDefinition = FALSE
    /\ coroutines = <<>>
    /\ closed = FALSE
    /\ result = NilResult
    /\ calls = <<>>
    /\ userChan = <<>>
    /\ shared = 0
    /\ crashed = ""
    /\ nEvents = 0
    /\ last = NoCall
    /\ fedScheduled = <<>>
    /\ genIds = <<>>
    /\ workers = <<>>

\* what the call that ended in s leaves for the properties to read;
\* closedAtCall tells whether the dispatcher was closed when the call began
Outcome(s, event) ==
    IF s.crashed # ""
    THEN [NoCall EXCEPT !.event = event, !.fed = TRUE, !.made = s.made,
                        !.invoked = s.invoked, !.pumps = s.pumps,
                        !.closedAtCall = closed]
    ELSE [made |-> s.made, invoked |-> s.invoked, returns |-> s.returns,
          pumps |-> s.pumps, advanced |-> s.advanced,
          err |-> s.ret.err, decisions |-> s.ret.decisions,
          nil |-> s.ret.nil, event |-> event, fed |-> TRUE,
          closedAtCall |-> closed]

\* the handler's state after a call that ended in s
Store(s, event) ==
    /\ scheduledActivites' = s.scheduledActivites
    /\ scheduledEventIDToActivityID' = s.scheduledEventIDToActivityID
    /\ counterID' = s.counterID
    /\ executeDecisions' = s.executeDecisions
    /\ completions' = s.completions
    /\ workflowDefinition' = s.workflowDefinition
    /\ coroutines' = s.coroutines
    /\ closed' = s.closed
    /\ result' = s.result
    /\ calls' = s.calls
    /\ userChan' = s.userChan
    /\ shared' = s.shared
    /\ crashed' = s.crashed
    /\ genIds' = s.genIds
    /\ last' = Outcome(s, event)

\* one ProcessEvent call of the worker on the next history event
Feed(event) ==
    /\ nEvents < MaxEvents
    /\ crashed = ""
    /\ Store(ProcessEvent(State, event), event)
    /\ fedScheduled' = IF event.eventType = "ActivityTaskScheduled"
                       THEN MapPut(fedScheduled, event.eventId, event.activityId)
                       ELSE fedScheduled
    /\ nEvents' = nEvents + 1
    /\ UNCHANGED <<workflowType, workers>>

\* a history starts with WorkflowExecutionStarted and holds it once
FeedWorkflowExecutionStarted ==
    /\ nEvents = 0
    /\ Feed(Event("WorkflowExecutionStarted", 0, <<>>, 0, NilBytes, "", "", ""))

\* the no-op events the histories of this specification contain
FedNoOpEventTypes == {"DecisionTaskStarted", "ActivityTaskStarted"}

FeedNoOp ==
    \E type \in FedNoOpEventTypes : Feed(Event(type, 0, <<>>, 0, NilBytes, "", "", ""))

\* event ids are unique within a history
FeedActivityTaskScheduled ==
    \E id \in EventIds \ DOMAIN fedScheduled, aid \in ActivityIds :
        Feed(Event("ActivityTaskScheduled", id, aid, 0, NilBytes, "", "", ""))

FeedActivityTaskCompleted ==
    \E sid \in EventIds, r \in Results :
        Feed(Event("ActivityTaskCompleted", 0, <<>>, sid, r, "", "", ""))

FeedActivityTaskFailed ==
    \E sid \in EventIds, reason \in Reasons, details \in Details :
        Feed(Event("ActivityTaskFailed", 0, <<>>, sid, NilBytes, reason, details, ""))

FeedActivityTaskTimedOut ==
    \E sid \in EventIds, tt \in TimeoutTypes :
        Feed(Event("ActivityTaskTimedOut", 0, <<>>, sid, NilBytes, "", "", tt))

FeedUnknown ==
    \E type \in UnknownEventTypes : Feed(Event(type, 0, <<>>, 0, NilBytes, "", "", ""))

FeedNil == Feed(NilEvent)

Next ==
    \/ FeedWorkflowExecutionStarted
    \/ FeedNoOp
    \/ FeedActivityTaskScheduled
    \/ FeedActivityTaskCompleted
    \/ FeedActivityTaskFailed
    \/ FeedActivityTaskTimedOut
    \/ FeedUnknown
    \/ FeedNil

Spec == Init /\ [][Next]_vars

\* user code asking the workflow context for activity ids, one call per step
GenerateActivityIDCall ==
    /\ Len(genIds) < MaxGenCalls
    /\ LET s == GenerateActivityID(State) IN
       /\ counterID' = s.counterID
       /\ genIds' = s.genIds
    /\ UNCHANGED <<workflowType, scheduledActivites, scheduledEventIDToActivityID,
                   executeDecisions, completions, workflowDefinition, coroutines,
                   closed, result, calls, userChan, shared, crashed, nEvents, last,
                   fedScheduled, workers>>

NextGen == GenerateActivityIDCall

SpecGen == Init /\ [][NextGen]_vars

\* ---------------------------------------------------- worker construction
\* WorkerExecutionParameters
WorkerExecutionParameters(taskListName, routineSize, identity) ==
    [TaskListName |-> taskListName, ConcurrentPollRoutineSize |-> routineSize,
     Identity |-> identity]

\* GetWorkerIdentity(taskListName): a non-blank identity generated from the
\* task-list name
GetWorkerIdentity(taskListName) == "pid@host@" \o taskListName

\* newWorkflowTaskHandler / newActivityTaskHandler: the handler keeps the task
\* list and the identity it is given
newTaskHandler(taskListName, identity) ==
    [taskListName |-> taskListName, identity |-> identity, override |-> FALSE]

\* a task handler supplied through workerOverrides
OverrideTaskHandler ==
    [taskListName |-> "", identity |-> "override", override |-> TRUE]

\* newWorkflowTaskPoller / newActivityTaskPoller
newTaskPoller(taskListName, identity, taskHandler) ==
    [taskListName |-> taskListName, identity |-> identity,
     taskHandler |-> taskHandler]

\* newBaseWorker(baseWorkerOptions{...})
newBaseWorker(routineCount, taskPoller, identity) ==
    [identity |-> identity, routineCount |-> routineCount, taskPoller |-> taskPoller]

\* the identity both constructors compute first
resolveIdentity(params) ==
    IF params.Identity = "" THEN GetWorkerIdentity(params.TaskListName)
    ELSE params.Identity

\* the worker record both constructors return
Worker(type, params, poller, worker, identity) ==
    [type |-> type, identity |-> identity, poller |-> poller, worker |-> worker,
     executionParameters |-> params]

\* newWorkflowWorkerInternal(params, factory, service, logger, overrides)
newWorkflowWorkerInternal(params, overridden) ==
    LET identity == resolveIdentity(params)
        taskHandler == IF overridden THEN OverrideTaskHandler
                       ELSE newTaskHandler(params.TaskListName, identity)
        poller == newTaskPoller(params.TaskListName, identity, taskHandler)
        worker == newBaseWorker(params.ConcurrentPollRoutineSize, poller, identity)
    IN Worker("WorkflowWorker", params, poller, worker, identity)

\* newActivityWorkerInternal(executionParameters, factory, service, logger, overrides)
newActivityWorkerInternal(executionParameters, overridden) ==
    LET identity == resolveIdentity(executionParameters)
        taskHandler == IF overridden THEN OverrideTaskHandler
                       ELSE newTaskHandler(executionParameters.TaskListName,
                                           executionParameters.Identity)
        poller == newTaskPoller(executionParameters.TaskListName, identity, taskHandler)
        worker == newBaseWorker(executionParameters.ConcurrentPollRoutineSize,
                                poller, identity)
    IN Worker("ActivityWorker", executionParameters, poller, worker, identity)

\* the configurations the workers are built from
TaskListNames == {"tl1", "tl2"}
Identities == {"", "me", "you"}
RoutineSizes == {1, 2}

WorkerParameters ==
    {WorkerExecutionParameters(tl, n, id) :
        tl \in TaskListNames, n \in RoutineSizes, id \in Identities}

HandlerVars ==
    <<workflowType, scheduledActivites, scheduledEventIDToActivityID, counterID,
      executeDecisions, completions, workflowDefinition, coroutines, closed,
      result, calls, userChan, shared, crashed, nEvents, last, fedScheduled, genIds>>

\* NewWorkflowWorker(params, factory, service, logger), or the internal
\* constructor with a task handler override
NewWorkflowWorker ==
    /\ Len(workers) < MaxWorkers
    /\ \E params \in WorkerParameters, overridden \in BOOLEAN :
          workers' = Append(workers, newWorkflowWorkerInternal(params, overridden))
    /\ UNCHANGED HandlerVars

\* NewActivityWorker(executionParameters, factory, service, logger), or the
\* internal constructor with a task handler override
NewActivityWorker ==
    /\ Len(workers) < MaxWorkers
    /\ \E params \in WorkerParameters, overridden \in BOOLEAN :
          workers' = Append(workers, newActivityWorkerInternal(params, overridden))
    /\ UNCHANGED HandlerVars

NextWorker ==
    \/ NewWorkflowWorker
    \/ NewActivityWorker

\* no worker has been built; the event handler plays no part
InitWorker == Init /\ workflowType = "single"

SpecWorker == InitWorker /\ [][NextWorker]_vars

\* histories that hold every event type ProcessEvent has an empty case for
FeedAnyNoOp ==
    \E type \in NoOpEventTypes : Feed(Event(type, 0, <<>>, 0, NilBytes, "", "", ""))

NextNoOp ==
    \/ FeedWorkflowExecutionStarted
    \/ FeedAnyNoOp
    \/ FeedActivityTaskScheduled
    \/ FeedActivityTaskCompleted

SpecNoOp == Init /\ [][NextNoOp]_vars


\* ------------------------------------------------------------------ claims
\* C1: over the whole execution the completion handler is invoked at most
\* once, whatever history events are fed to the event handler.
C1_CompleteAtMostOnce == Len(completions) <= 1


\* the step is a ProcessEvent call on a terminal activity event
TerminalCall ==
    /\ nEvents' = nEvents + 1
    /\ last'.fed
    /\ last'.event.eventType \in TerminalEventTypes

\* the calls whose callback was registered under activity id a
CallsUnder(a) == {k \in 1..Len(calls) : calls[k].aid = a}

\* the callback registered under activity id a: the latest registration
CallbackOf(a) == CHOOSE k \in CallsUnder(a) : \A j \in CallsUnder(a) : j <= k

\* C2: after ActivityTaskScheduled with event id E and activity id A was
\* handled, a terminal activity event with scheduledEventId E invokes the
\* callback registered under A by ExecuteActivity and no other callback.
C2_EventIdRouting ==
    [][(TerminalCall /\ last'.event.scheduledEventId \in DOMAIN fedScheduled)
         => LET a == fedScheduled[last'.event.scheduledEventId] IN
            IF CallsUnder(a) # {}
            THEN last'.invoked = <<CallbackOf(a)>>
            ELSE last'.invoked = <<>>]_vars

\* C2 witness: a terminal event was routed to the callback of its activity
\* while a callback registered under another activity id existed
C2_Witness ==
    /\ last.fed
    /\ last.event.eventType \in TerminalEventTypes
    /\ last.invoked # <<>>
    /\ \E k \in 1..Len(calls) :
          calls[k].aid # fedScheduled[last.event.scheduledEventId]

\* C3: a terminal activity event whose scheduledEventId no prior
\* ActivityTaskScheduled recorded returns a processing error with a nil
\* batch, invokes no callback and leaves pendingDecisions, both maps and the
\* counter unchanged.
C3_MissingScheduledEvent ==
    [][(TerminalCall /\ last'.event.scheduledEventId \notin DOMAIN fedScheduled)
         => /\ last'.nil
            /\ last'.err # ""
            /\ last'.invoked = <<>>
            /\ crashed' = ""
            /\ UNCHANGED <<executeDecisions, scheduledActivites,
                           scheduledEventIDToActivityID, counterID>>]_vars

\* C3 witness: such an event was processed while callbacks were registered
\* and another scheduled event was recorded
C3_Witness ==
    /\ last.fed
    /\ last.event.eventType \in TerminalEventTypes
    /\ last.event.scheduledEventId \notin DOMAIN fedScheduled
    /\ DOMAIN fedScheduled # {}
    /\ DOMAIN scheduledActivites # {}
    /\ last.err # ""

\* C5: pendingDecisions is empty whenever ProcessEvent returns, and the batch
\* a call returns holds exactly the decisions appended during that call, in
\* order: none is left for a later call, lost or returned twice.
C5_DrainExclusivity ==
    /\ executeDecisions = <<>>
    /\ last.fed => IF last.nil THEN last.made = <<>>
                   ELSE last.decisions = last.made

\* C5 witness: a later call returned a non-empty batch after an earlier call
\* had returned decisions too
C5_Witness ==
    /\ nEvents >= 3
    /\ ~last.nil
    /\ last.decisions # <<>>
    /\ counterID > Len(last.decisions)


\* the value of a decimal digit, -1 for any other character
DigitValue(ch) ==
    CASE ch = "0" -> 0 [] ch = "1" -> 1 [] ch = "2" -> 2 [] ch = "3" -> 3
      [] ch = "4" -> 4 [] ch = "5" -> 5 [] ch = "6" -> 6 [] ch = "7" -> 7
      [] ch = "8" -> 8 [] ch = "9" -> 9 [] OTHER -> 0 - 1

\* the number a string of decimal digits denotes
RECURSIVE DecimalValue(_)
DecimalValue(str) ==
    IF str = <<>> THEN 0
    ELSE 10 * DecimalValue(SubSeq(str, 1, Len(str) - 1)) + DigitValue(str[Len(str)])

\* str is the decimal form of n: digits only, no leading zero, value n
IsDecimalOf(str, n) ==
    /\ Len(str) >= 1
    /\ \A j \in 1..Len(str) : DigitValue(str[j]) >= 0
    /\ Len(str) > 1 => str[1] # "0"
    /\ DecimalValue(str) = n

\* C6: the ids successive GenerateActivityID calls return are the decimal
\* forms of 0, 1, 2, ... in that order, the counter standing at their number.
C6_DecimalIds ==
    /\ counterID = Len(genIds)
    /\ \A i \in 1..Len(genIds) : IsDecimalOf(genIds[i], i - 1)

\* C6 witness: the calls went past one and past two digits
C6_Witness ==
    /\ Len(genIds) >= 101
    /\ genIds[1] = <<"0">>
    /\ genIds[11] = <<"1", "0">>
    /\ genIds[101] = <<"1", "0", "0">>

\* the number of increments of the shared counter a body performs, spawned
\* coroutines included
RECURSIVE WritesIn(_)
WritesIn(body) ==
    IF body = <<>> THEN 0
    ELSE (CASE Head(body).op = "write" -> 1
            [] Head(body).op = "go" -> WritesIn(Head(body).body)
            [] OTHER -> 0) + WritesIn(Tail(body))

\* every coroutine of the execution has run to its end
AllFinished ==
    /\ workflowDefinition
    /\ \A i \in 1..Len(coroutines) :
          coroutines[i].prog = <<>> /\ ~coroutines[i].panicked

\* C7: coroutine bodies are never interleaved between suspension points: when
\* the K coroutines that each read-increment-write the shared counter have
\* finished, the counter equals K.
C7_SingleThreaded ==
    AllFinished => shared = WritesIn(WorkflowCode(workflowType))

\* C7 witness: four coroutines incremented the counter within one pump
C7_Witness ==
    /\ AllFinished
    /\ Len(coroutines) = 4
    /\ shared = 4

\* C8: when a pump reports a coroutine panic, executeDispatcher calls Complete
\* once, with a nil result and an Error whose reason is the panic message and
\* whose details are the captured stack, closes the dispatcher and does not
\* report the result slot.
C8_PanicReported ==
    \A n \in 1..Len(last.pumps) :
       LET p == last.pumps[n] IN
       p.panicErr.set =>
          /\ p.completeCalls = 1
          /\ completions[p.at + 1] =
                [result |-> NilBytes,
                 err |-> [kind |-> "errorImpl", reason |-> p.panicErr.msg,
                          details |-> p.panicErr.stack, timeoutType |-> ""]]
          /\ p.panicErr.stack # ""
          /\ closed

\* C8 witness: a pump reported a panic after the root had written the result slot
C8_Witness ==
    \E n \in 1..Len(last.pumps) :
       /\ last.pumps[n].panicErr.set
       /\ last.pumps[n].slot.set
       /\ last.pumps[n].panicErr.msg = "child"


\* the last call handled a terminal activity event and invoked a callback,
\* which returned
CallbackRan ==
    /\ last.fed
    /\ last.event.eventType \in TerminalEventTypes
    /\ last.invoked # <<>>
    /\ crashed = ""

\* no coroutine is left with an operation that can complete, the batch holds
\* every decision made during the call, and a result the root wrote during
\* the call was reported by the call's pump
OutcomeInSameCall ==
    /\ \A i \in 1..Len(coroutines) : ~Runnable(State, i)
    /\ ~last.nil
    /\ last.decisions = last.made
    /\ (1 \in last.advanced /\ result.set /\ ~last.pumps[1].panicErr.set)
          => /\ last.pumps[1].completeCalls = 1
             /\ completions[last.pumps[1].at + 1] =
                   [result |-> result.workflowResult, err |-> result.error]

\* C9 as stated: whenever a terminal activity event reaches the callback of an
\* activity, the coroutine blocked on it is woken and the dispatcher is at a
\* fixed point when ProcessEvent returns, the call's outcome holding all the
\* woken coroutines produced.
C9_WokenInSameCall == CallbackRan => OutcomeInSameCall

\* C9 (amended): the same, for a terminal activity event handled while the
\* dispatcher has not been closed.
C9_WokenInSameCallWhileOpen ==
    (CallbackRan /\ ~last.closedAtCall) => OutcomeInSameCall

\* C9 witness: the woken coroutine returned from ExecuteActivity and scheduled
\* another activity, whose decision is in the batch of the same call
C9_Witness ==
    /\ CallbackRan
    /\ ~last.closedAtCall
    /\ Len(last.returns) = 1
    /\ Len(last.decisions) = 1
    /\ last.decisions[1].activityId = <<"1">>

\* the pair a terminal activity event stands for
OutcomeOf(event) ==
    CASE event.eventType = "ActivityTaskCompleted" ->
            [result |-> event.result, err |-> NilError]
      [] event.eventType = "ActivityTaskFailed" ->
            [result |-> NilBytes,
             err |-> [kind |-> "ActivityTaskFailedError", reason |-> event.reason,
                      details |-> event.details, timeoutType |-> ""]]
      [] event.eventType = "ActivityTaskTimedOut" ->
            [result |-> NilBytes,
             err |-> [kind |-> "ActivityTaskTimeoutError", reason |-> "",
                      details |-> "", timeoutType |-> event.timeoutType]]

\* C10: a synchronous ExecuteActivity call returns only while a terminal
\* event of its own activity is processed, and returns that event's outcome:
\* (result, nil) for completed, (nil, failed error with reason and details)
\* for failed, (nil, timeout error with the timeout type) for timed out.
C10_OwnOutcome ==
    /\ Len(last.returns) <= 1
    /\ \A n \in 1..Len(last.returns) :
          LET r == last.returns[n] IN
          /\ last.event.eventType \in TerminalEventTypes
          /\ last.event.scheduledEventId \in DOMAIN fedScheduled
          /\ r.aid = fedScheduled[last.event.scheduledEventId]
          /\ r.result = OutcomeOf(last.event).result
          /\ r.err = OutcomeOf(last.event).err

\* C10 witness: a call returned a failure while another coroutine was still
\* blocked in ExecuteActivity on a different activity
C10_Witness ==
    /\ Len(last.returns) = 1
    /\ last.event.eventType = "ActivityTaskFailed"
    /\ last.returns[1].err.reason = "boom"
    /\ \E i \in 1..Len(coroutines) :
          /\ coroutines[i].prog # <<>>
          /\ Head(coroutines[i].prog).op = "await"
          /\ calls[coroutines[i].call].aid # last.returns[1].aid


\* the variables of the workflow context and of the workflow it hosts
ContextVars ==
    <<scheduledActivites, scheduledEventIDToActivityID, counterID, executeDecisions,
      completions, workflowDefinition, coroutines, closed, result, calls,
      userChan, shared>>

\* C11: an ExecuteActivity call made during a ProcessEvent call with an
\* activity id that already has an entry in scheduledActivites is rejected:
\* the call ends in a processing error and the entry keeps its callback.
C11_CollisionRejected ==
    [][\A n \in 1..Len(last'.made) :
          LET aid == last'.made[n].activityId IN
          aid \in DOMAIN scheduledActivites
             => /\ last'.err # ""
                /\ scheduledActivites'[aid] = scheduledActivites[aid]]_vars


\* C12: a ProcessEvent call with a nil event returns a nil batch and an
\* error, runs no workflow code, invokes no callback and changes nothing of
\* the workflow context.
C12_NilEvent ==
    [][(last'.fed /\ nEvents' = nEvents + 1
          /\ last'.event.eventType = NilEvent.eventType)
         => /\ last'.nil
            /\ last'.err # ""
            /\ last'.made = <<>> /\ last'.invoked = <<>>
            /\ last'.pumps = <<>> /\ last'.advanced = {}
            /\ crashed' = ""
            /\ UNCHANGED ContextVars]_vars

\* C12 witness: a nil event was fed to a handler whose workflow is waiting for
\* an activity
C12_Witness ==
    /\ last.fed
    /\ last.event.eventType = NilEvent.eventType
    /\ last.err = "nil event provided"
    /\ \E i \in 1..Len(coroutines) :
          coroutines[i].prog # <<>> /\ Head(coroutines[i].prog).op = "await"


\* C13: a ProcessEvent call with an event of a type the switch has no case for
\* returns a nil batch and the "missing event handler" error and changes
\* nothing of the workflow context.
C13_UnknownEventType ==
    [][(last'.fed /\ nEvents' = nEvents + 1
          /\ last'.event.eventType
                \notin ({"WorkflowExecutionStarted", "ActivityTaskScheduled",
                         NilEvent.eventType}
                           \cup NoOpEventTypes \cup TerminalEventTypes))
         => /\ last'.nil
            /\ last'.err = "missing event handler for event type"
            /\ last'.made = <<>> /\ last'.invoked = <<>>
            /\ last'.pumps = <<>> /\ last'.advanced = {}
            /\ crashed' = ""
            /\ UNCHANGED ContextVars]_vars

\* C13 witness: an event of an unhandled type was fed to a handler whose
\* workflow is waiting for an activity
C13_Witness ==
    /\ last.fed
    /\ last.event.eventType \in UnknownEventTypes
    /\ last.err = "missing event handler for event type"
    /\ \E i \in 1..Len(coroutines) :
          coroutines[i].prog # <<>> /\ Head(coroutines[i].prog).op = "await"


C15_CompleteAfterRootReturn ==
    \A n \in 1..Len(last.pumps) :
       LET p == last.pumps[n] IN
       ~p.panicErr.set
          => IF p.slot.set
             THEN /\ p.completeCalls = 1
                  /\ completions[p.at + 1] =
                        [result |-> p.slot.workflowResult, err |-> p.slot.error]
                  /\ p.closedAfter
             ELSE /\ p.completeCalls = 0
                  /\ p.closedAfter = p.wasClosed

\* C15 witness: the root stayed blocked in the pump of the started event and no
\* completion was reported; it returned in the pump of the activity's failure,
\* which reported exactly that failure
C15_Witness ==
    /\ workflowType = "single"
    /\ last.event.eventType = "ActivityTaskFailed"
    /\ Len(last.pumps) = 1
    /\ last.pumps[1].at = 0
    /\ ~last.pumps[1].wasClosed
    /\ 1 \in last.advanced
    /\ completions = <<[result |-> NilBytes,
                        err |-> ActivityTaskFailedError("boom", "d")]>>


\* C16: the callback of every synchronous ExecuteActivity call is invoked at
\* most once over the whole history.
C16_CallbackAtMostOnce ==
    \A k \in 1..Len(calls) : calls[k].delivered <= 1


\* C17: the SendAsync of an activity callback is always accepted: no
\* ProcessEvent call ends in panic("unexpected").
C17_SendAsyncAccepted == crashed # "unexpected"


\* C18: no call of executeDispatcher is made while a pump of the dispatcher is
\* in progress, and activity callbacks are invoked only by ProcessEvent calls
\* that handle a terminal activity event.
C18_PumpNotReentered ==
    /\ \A n \in 1..Len(last.pumps) : ~last.pumps[n].nested
    /\ last.invoked # <<>> => last.event.eventType \in TerminalEventTypes

\* C18 witness: a callback re-pumped the dispatcher, and the coroutine it woke
\* called ExecuteActivity again inside that pump
C18_Witness ==
    /\ last.event.eventType \in TerminalEventTypes
    /\ last.invoked # <<>>
    /\ Len(last.pumps) = 1
    /\ ~last.pumps[1].wasClosed
    /\ Len(last.returns) = 1
    /\ Len(last.made) = 1


\* C19: a ProcessEvent call made after the dispatcher was closed advances no
\* coroutine: no coroutine resumes or changes, no ScheduleActivityTask decision
\* is made, and none is returned or left pending.
C19_NoProgressAfterClose ==
    [][(closed /\ nEvents' = nEvents + 1)
         => /\ last'.advanced = {}
            /\ last'.returns = <<>>
            /\ last'.made = <<>>
            /\ last'.decisions = <<>>
            /\ executeDecisions' = <<>>
            /\ coroutines' = coroutines]_vars

\* C19 witness: after the close, the terminal event of an activity reached the
\* callback of a coroutine that is still suspended on it
C19_Witness ==
    /\ closed
    /\ last.closedAtCall
    /\ last.event.eventType \in TerminalEventTypes
    /\ last.invoked # <<>>
    /\ \E i \in 1..Len(coroutines) :
          /\ coroutines[i].prog # <<>>
          /\ Head(coroutines[i].prog).op = "await"
          /\ coroutines[i].call = last.invoked[1]
          /\ calls[coroutines[i].call].buf # <<>>


\* the synchronous ExecuteActivity calls made so far whose request supplies no
\* activity id
AutoIdCalls == {k \in 1..Len(calls) : calls[k].requestID = NilID}

\* C20 as stated: the counter has advanced once for every ExecuteActivity call
\* made by user code, whether or not the request supplied its own activity id.
C20_CounterPerCall == counterID = Len(calls)

\* C20 (amended): the counter has advanced once for every ExecuteActivity call
\* whose request supplies no activity id, and not for the calls that supply one.
C20_CounterPerAutoIdCall == counterID = Cardinality(AutoIdCalls)

\* C20 witness: user code has made calls of both kinds
C20_Witness ==
    /\ AutoIdCalls # {}
    /\ AutoIdCalls # 1..Len(calls)
    /\ counterID = 1
    /\ Len(calls) = 3


\* C21: every ExecuteActivity call made during a ProcessEvent call appends one
\* ScheduleActivityTask decision after the decisions already pending, with the
\* request's activity id when it has one and a newly generated id otherwise,
\* registers its callback under that id without invoking it, and leaves
\* scheduledEventIDToActivityID and the entries of other ids alone.
C21_ExecuteActivityEffect ==
    [][nEvents' = nEvents + 1
         => /\ Len(last'.made) = Len(calls') - Len(calls)
            /\ \A j \in 1..Len(last'.made) :
                  LET k == Len(calls) + j
                      d == last'.made[j]
                  IN /\ d.decisionType = "ScheduleActivityTask"
                     /\ d.activityId = calls'[k].aid
                     /\ IF calls'[k].requestID # NilID
                        THEN d.activityId = calls'[k].requestID
                        ELSE \E g \in (Len(genIds) + 1)..Len(genIds') :
                                genIds'[g] = d.activityId
                     /\ d.activityId \in DOMAIN scheduledActivites'
                     /\ scheduledActivites'[d.activityId] >= k
                     /\ calls'[scheduledActivites'[d.activityId]].aid = d.activityId
                     /\ calls'[k].delivered = 0
            /\ last'.made # <<>>
                  => /\ last'.decisions = last'.made
                     /\ scheduledEventIDToActivityID' = scheduledEventIDToActivityID
            /\ \A a \in DOMAIN scheduledActivites :
                  (\A j \in 1..Len(last'.made) : last'.made[j].activityId # a)
                     => /\ a \in DOMAIN scheduledActivites'
                        /\ scheduledActivites'[a] = scheduledActivites[a]]_vars

\* C21 witness: after two calls that supplied their own ids, a call without an
\* id was made while another callback was registered
C21_Witness ==
    /\ workflowType = "userIds"
    /\ Len(calls) = 3
    /\ calls[3].requestID = NilID
    /\ Len(last.made) = 1
    /\ last.made[1].activityType = "C"
    /\ <<"x">> \in DOMAIN scheduledActivites
    /\ scheduledActivites[<<"x">>] = 2


\* C22: the ScheduleActivityTask decisions of a returned batch are in the
\* order of the ExecuteActivity calls made during the ProcessEvent call, and
\* the auto-generated ids among them increase in that order.
C22_BatchInCallOrder ==
    [][(nEvents' = nEvents + 1 /\ ~last'.nil)
         => /\ Len(last'.decisions) = Len(calls') - Len(calls)
            /\ \A j \in 1..Len(last'.decisions) :
                  last'.decisions[j].activityId = calls'[Len(calls) + j].aid
            /\ \A i, j \in 1..Len(last'.decisions) :
                  (/\ i < j
                   /\ calls'[Len(calls) + i].requestID = NilID
                   /\ calls'[Len(calls) + j].requestID = NilID)
                     => DecimalValue(last'.decisions[i].activityId)
                           < DecimalValue(last'.decisions[j].activityId)]_vars

\* C22 witness: two coroutines each scheduled an activity in the same pump
C22_Witness ==
    /\ workflowType = "parallel"
    /\ Len(last.decisions) = 2
    /\ last.decisions[1].activityType = "A"
    /\ last.decisions[1].activityId = <<"0">>
    /\ last.decisions[2].activityType = "B"
    /\ last.decisions[2].activityId = <<"1">>


\* every synchronous ExecuteActivity call of the n the workflow makes has had
\* a terminal event delivered to its callback
AllDelivered(n) ==
    /\ Len(calls) = n
    /\ \A k \in 1..n : calls[k].delivered >= 1

\* C23: for the workflow whose root spawns two children that each await one
\* activity and waits for both, Complete has been called exactly when a
\* terminal event has been delivered for both activities (so it is called by
\* the ProcessEvent call that delivers the last one), with the root's result.
C23_CompleteAfterAllActivities ==
    workflowType = "parallel"
       => /\ completions # <<>> <=> AllDelivered(2)
          /\ completions # <<>>
                => completions[1] = [result |-> "ab", err |-> NilError]

\* C23 witness: the activity scheduled second was delivered first, and the
\* call that delivered the other one reported the completion
C23_Witness ==
    /\ workflowType = "parallel"
    /\ AllDelivered(2)
    /\ last.invoked = <<1>>
    /\ calls[1].delivered = 1
    /\ calls[2].delivered = 1
    /\ Len(last.pumps) = 1
    /\ last.pumps[1].completeCalls = 1
    /\ Len(completions) = 1


\* C24: a ProcessEvent call for one of the ten event types with an empty case
\* returns (nil, nil), runs no coroutine, invokes no callback and changes
\* nothing of the workflow context.
C24_NoOpEvents ==
    [][(nEvents' = nEvents + 1 /\ last'.event.eventType \in NoOpEventTypes)
         => /\ last'.nil
            /\ last'.err = ""
            /\ last'.made = <<>> /\ last'.invoked = <<>>
            /\ last'.pumps = <<>> /\ last'.advanced = {}
            /\ crashed' = ""
            /\ UNCHANGED ContextVars]_vars

\* C24 witness: such an event was fed to a handler that holds a registered
\* callback, a recorded scheduled event and a coroutine waiting for an activity
C24_Witness ==
    /\ last.fed
    /\ last.event.eventType = "TimerFired"
    /\ last.nil /\ last.err = ""
    /\ counterID > 0
    /\ DOMAIN scheduledActivites # {}
    /\ DOMAIN scheduledEventIDToActivityID # {}
    /\ \E i \in 1..Len(coroutines) :
          coroutines[i].prog # <<>> /\ Head(coroutines[i].prog).op = "await"


\* C25: a ProcessEvent call for ActivityTaskScheduled adds the entry event id
\* -> activity id to scheduledEventIDToActivityID, keeps its other entries,
\* returns (nil, nil), runs no coroutine, invokes no callback and changes
\* nothing else of the workflow context.
C25_ScheduledRecorded ==
    [][(nEvents' = nEvents + 1 /\ last'.event.eventType = "ActivityTaskScheduled")
         => /\ DOMAIN scheduledEventIDToActivityID'
                  = DOMAIN scheduledEventIDToActivityID \cup {last'.event.eventId}
            /\ scheduledEventIDToActivityID'[last'.event.eventId]
                  = last'.event.activityId
            /\ \A id \in DOMAIN scheduledEventIDToActivityID \ {last'.event.eventId} :
                  scheduledEventIDToActivityID'[id] = scheduledEventIDToActivityID[id]
            /\ last'.nil
            /\ last'.err = ""
            /\ last'.made = <<>> /\ last'.invoked = <<>>
            /\ last'.pumps = <<>> /\ last'.advanced = {}
            /\ crashed' = ""
            /\ UNCHANGED <<scheduledActivites, counterID, executeDecisions,
                           completions, workflowDefinition, coroutines, closed,
                           result, calls, userChan, shared>>]_vars

\* C25 witness: a second scheduled event was recorded next to the first while
\* callbacks were registered
C25_Witness ==
    /\ last.fed
    /\ last.event.eventType = "ActivityTaskScheduled"
    /\ DOMAIN scheduledEventIDToActivityID = {5, 6}
    /\ scheduledEventIDToActivityID[last.event.eventId] = last.event.activityId
    /\ DOMAIN scheduledActivites # {}


\* C26: a ProcessEvent call for a terminal activity event whose scheduled
\* event id resolves to an activity id without an entry in scheduledActivites
\* returns a nil batch and an error, invokes no callback and changes nothing
\* of the workflow context.
C26_MissingCallback ==
    [][(/\ nEvents' = nEvents + 1
        /\ last'.event.eventType \in TerminalEventTypes
        /\ last'.event.scheduledEventId \in DOMAIN scheduledEventIDToActivityID
        /\ scheduledEventIDToActivityID[last'.event.scheduledEventId]
              \notin DOMAIN scheduledActivites)
         => /\ last'.nil
            /\ last'.err = "unable to find callback handler for the event"
            /\ last'.made = <<>> /\ last'.invoked = <<>>
            /\ last'.pumps = <<>> /\ last'.advanced = {}
            /\ crashed' = ""
            /\ UNCHANGED ContextVars]_vars

\* C26 witness: the event resolved to an activity id nobody registered while
\* another activity's callback was registered
C26_Witness ==
    /\ last.fed
    /\ last.event.eventType \in TerminalEventTypes
    /\ last.event.scheduledEventId \in DOMAIN scheduledEventIDToActivityID
    /\ scheduledEventIDToActivityID[last.event.scheduledEventId]
          \notin DOMAIN scheduledActivites
    /\ DOMAIN scheduledActivites # {}
    /\ last.err = "unable to find callback handler for the event"


\* C27: when the workflow definition factory returns an error, the
\* ProcessEvent call for WorkflowExecutionStarted returns a nil batch and that
\* error, runs no workflow code, does not call Complete and changes nothing of
\* the workflow context.
C27_FactoryError ==
    [][(/\ nEvents' = nEvents + 1
        /\ last'.event.eventType = "WorkflowExecutionStarted"
        /\ workflowDefinitionFactory(workflowType) # "")
         => /\ last'.nil
            /\ last'.err = workflowDefinitionFactory(workflowType)
            /\ last'.made = <<>> /\ last'.invoked = <<>>
            /\ last'.pumps = <<>> /\ last'.advanced = {}
            /\ coroutines' = <<>>
            /\ completions' = <<>>
            /\ crashed' = ""
            /\ UNCHANGED ContextVars]_vars

\* C27 witness: the started event of a workflow type the factory rejects was
\* processed
C27_Witness ==
    /\ workflowType \in FactoryErrorTypes
    /\ last.fed
    /\ last.event.eventType = "WorkflowExecutionStarted"
    /\ last.err = "factory error"
    /\ nEvents = 1


\* the task poller, the base worker and (unless it was supplied through the
\* overrides) the task handler of worker w all hold the identity id
ComponentsHold(w, id) ==
    /\ w.identity = id
    /\ w.poller.identity = id
    /\ w.worker.identity = id
    /\ ~w.poller.taskHandler.override => w.poller.taskHandler.identity = id

\* C28: every component a workflow worker or an activity worker builds holds
\* the configured identity when that is non-blank, and the identity generated
\* from the task-list name otherwise.
C28_SameIdentity ==
    \A n \in 1..Len(workers) :
       LET w == workers[n]
           params == w.executionParameters
       IN ComponentsHold(w, IF params.Identity # "" THEN params.Identity
                            ELSE GetWorkerIdentity(params.TaskListName))

====
